---- MODULE Spec2Model ----
(***************************************************************************)
(* A model of colorization/visualization.py: the pixel-accuracy metric     *)
(* (_raw_accuracy, _auc), the learning-curve smoothing and the demo grid   *)
(* drivers.  Numbers that the program holds as floats are exact rationals  *)
(* here, a pair <<n, d>> with d > 0 in lowest terms; float rounding is not *)
(* modelled.                                                               *)
(***************************************************************************)
EXTENDS Integers, Sequences, FiniteSets

VARIABLES
    prior,        \* DEFAULT_CIELAB.gamut.prior: bin -> probability
    pc,           \* the function running and its position
    P, G,         \* the two chrominance images handed to the metric
    tau,          \* the threshold of a _raw_accuracy call
    grid,         \* <<thresh_min, thresh_max, thresh_step>> of an _auc call
    reweigh,      \* reweigh_classes
    thresh_arr,   \* _auc's threshold array, thresh
    aucs,         \* _auc's list of per-threshold accuracies
    ret,          \* the value returned
    log,          \* the lines of the log file: a loss, or a line without match
    smoothing_alpha,
    lineno,       \* lines of the log read so far
    losses,
    losses_smoothed,
    T,            \* model.network.decode_q.T
    T_entry,      \* history: T when annealed_mean_demo was entered
    t_orig,
    ts,
    n_images,     \* len(dataloader) of annealed_mean_demo
    col, row,     \* the loop variables c and r of a grid driver
    axes,         \* what imshow put in each cell <<r, c>> of the grid
    calls,        \* history: the predictor's invocations, in order
    titles,       \* the titles set, per cell
    results,      \* results.txt: the score of the image of each line
    rows, columns_best, columns_worst,
    images_sorted,
    images_show,
    reads,        \* history: the paths given to imread, in order
    orientation,  \* the orientation given to _subplot_divider
    fig_lines,    \* the lines added to the figure
    lines_entry,  \* history: fig_lines when _subplot_divider was entered
    dataloader,   \* the images of raw_accuracy_demo
    auc_total,
    demo_i,       \* the images raw_accuracy_demo has processed
    n_good, n_bad,   \* len(dataloader_good), len(dataloader_bad)
    T_norebal, T_rebal,  \* the temperatures of good_vs_bad_demo's two models
    outcomes,     \* per labelled image: does the classifier's argmax equal its label
    correct,
    cls_i         \* the images classification_performance_demo has processed

metric_vars == <<P, G, tau, grid, reweigh, thresh_arr, aucs>>
curve_vars == <<log, smoothing_alpha, lineno, losses, losses_smoothed>>
anneal_vars == <<T_entry, t_orig, ts, n_images>>
grid_vars == <<col, row, axes, calls, titles>>
amt_vars == <<results, rows, columns_best, columns_worst, images_sorted, images_show, reads>>
divider_vars == <<orientation, fig_lines, lines_entry>>
demo_vars == <<dataloader, auc_total, demo_i>>
gvb_vars == <<n_good, n_bad, T_norebal, T_rebal>>
cls_vars == <<outcomes, correct, cls_i>>

vars == <<prior, pc, ret, T, metric_vars, curve_vars, anneal_vars, grid_vars,
          amt_vars, divider_vars, demo_vars, gvb_vars, cls_vars>>

---------------------------------------------------------------------------
(* Bounds of the model. *)

\* the largest number of pixels (H * W) of an image given to the metric
MaxPixels == 2
\* the largest number of lines of a log file
MaxLines == 4
\* the largest length of a temperature sweep
MaxSweep == 3
\* the largest number of images of a directory
MaxImages == 2
\* the largest number of lines of results.txt
MaxEntries == 4
\* the largest rows, columns_best and columns_worst of amt_results_demo
MaxRows == 2
MaxColumns == 2

---------------------------------------------------------------------------
(* Exact rational arithmetic for Python's float "/", "*", "+", "<=". *)

Abs(x) == IF x < 0 THEN -x ELSE x

RECURSIVE GCD(_, _)
GCD(a, b) == IF b = 0 THEN a ELSE GCD(b, a % b)

\* n / d in lowest terms, d > 0
Rat(n, d) ==
    LET s == IF d < 0 THEN -1 ELSE 1
        g == GCD(Abs(n), Abs(d))
    IN  <<(s * n) \div g, (s * d) \div g>>

Zero == Rat(0, 1)
One == Rat(1, 1)
\* common factors are divided out before multiplying, to keep the integers small
RAdd(x, y) ==
    LET g == GCD(x[2], y[2])
    IN  Rat(x[1] * (y[2] \div g) + y[1] * (x[2] \div g), (x[2] \div g) * y[2])
RMul(x, y) ==
    LET g1 == GCD(Abs(x[1]), y[2])
        g2 == GCD(Abs(y[1]), x[2])
    IN  Rat((x[1] \div g1) * (y[1] \div g2), (x[2] \div g2) * (y[2] \div g1))
RDiv(x, y) == RMul(x, Rat(y[2], y[1]))
RLe(x, y) ==
    LET g == GCD(x[2], y[2])
    IN  x[1] * (y[2] \div g) <= y[1] * (x[2] \div g)

\* sum(), ndarray.sum(): the sum of a sequence of rationals
RECURSIVE RSum(_)
RSum(s) == IF Len(s) = 0 THEN Zero ELSE RAdd(RSum(SubSeq(s, 1, Len(s) - 1)), s[Len(s)])

---------------------------------------------------------------------------
(* The inputs of the metric.  An image is its pixels in row-major order, a *)
(* sequence of <<a, b>> chrominance pairs: the metric reads the shape      *)
(* (H, W) only through H * W.                                              *)

\* chrominance values: the distance 50 falls on the default threshold grid,
\* sqrt(18100) and sqrt(34000) do not, and the last is above 150
ABValues == {<<0, 0>>, <<30, 40>>, <<-90, -100>>}

Images == UNION {[1..n -> ABValues] : n \in 1..MaxPixels}

ImagePairs == {pg \in Images \X Images : Len(pg[1]) = Len(pg[2])}

\* DEFAULT_CIELAB.bin_ab: the cell of the 10-wide grid over [-110, 110]^2
bin_ab(ab) == <<(ab[1] + 110) \div 10, (ab[2] + 110) \div 10>>

Bins == {bin_ab(ab) : ab \in ABValues}

\* prior tables: every bin's probability is positive and they sum to at most 1
PriorTables ==
    { [b \in Bins |-> Rat(1, 8)],
      [b \in Bins |-> IF b = bin_ab(<<0, 0>>) THEN Rat(1, 2) ELSE Rat(1, 16)],
      [b \in Bins |-> IF b = bin_ab(<<30, 40>>) THEN Rat(3, 10) ELSE Rat(1, 5)] }

---------------------------------------------------------------------------
(* _raw_accuracy, lines 110-131 *)

\* 1 / prior[q], then /= sum: the weight of every pixel of img
pixel_weights_raw(img) == [p \in 1..Len(img) |-> RDiv(One, prior[bin_ab(img[p])])]

pixel_weights(img) ==
    LET w == pixel_weights_raw(img)
        total == RSum(w)
    IN  [p \in 1..Len(img) |-> RDiv(w[p], total)]

\* np.linalg.norm(ab_label - ab_pred, axis=2), kept as its square
dist2(ab_pred, ab_label) ==
    [p \in 1..Len(ab_pred) |->
        (ab_label[p][1] - ab_pred[p][1]) * (ab_label[p][1] - ab_pred[p][1])
      + (ab_label[p][2] - ab_pred[p][2]) * (ab_label[p][2] - ab_pred[p][2])]

\* dist <= thresh for a distance given by its square d2
within_strict(d2, thresh) == thresh > 0 /\ d2 < thresh * thresh

within_squares(d2, thresh) == d2 <= thresh * thresh

within(d2, thresh) == thresh >= 0 /\ d2 <= thresh * thresh

within_thresh(ab_pred, ab_label, thresh) ==
    LET dist == dist2(ab_pred, ab_label)
    IN  [p \in 1..Len(ab_pred) |-> within(dist[p], thresh)]

\* np.count_nonzero
count_nonzero(mask) == Cardinality({p \in 1..Len(mask) : mask[p]})

raw_accuracy(ab_pred, ab_label, thresh, reweigh_classes) ==
    LET wt == within_thresh(ab_pred, ab_label, thresh)
        num_within_thresh == count_nonzero(wt)
    IN  IF num_within_thresh = 0 THEN Zero
        ELSE IF reweigh_classes
             THEN LET w == pixel_weights(ab_pred)
                  IN  RSum([p \in 1..Len(wt) |-> IF wt[p] THEN w[p] ELSE Zero])
             ELSE Rat(num_within_thresh, Len(wt))

---------------------------------------------------------------------------
(* _auc, lines 134-150 *)

\* np.arange(thresh_min, thresh_max, thresh_step) for a positive integer step
arange(thresh_min, thresh_max, thresh_step) ==
    LET n == IF thresh_max > thresh_min
             THEN (thresh_max - thresh_min + thresh_step - 1) \div thresh_step
             ELSE 0
    IN  [i \in 1..n |-> thresh_min + (i - 1) * thresh_step]

\* aucs = [raw_acc(t) for t in thresh]
auc_list(ab_pred, ab_label, thresh, reweigh_classes) ==
    [i \in 1..Len(thresh) |-> raw_accuracy(ab_pred, ab_label, thresh[i], reweigh_classes)]

\* sum(aucs) / len(thresh)
auc_mean_trapezoid(accs, n) ==
    RDiv(RAdd(RSum(accs), RMul(Rat(-1, 2), RAdd(accs[1], accs[Len(accs)]))), Rat(n - 1, 1))

auc_mean(accs, n) == RDiv(RSum(accs), Rat(n, 1))

auc(ab_pred, ab_label, thresh_min, thresh_max, thresh_step, reweigh_classes) ==
    LET th == arange(thresh_min, thresh_max, thresh_step)
    IN  auc_mean(auc_list(ab_pred, ab_label, th, reweigh_classes), Len(th))

\* the default threshold grid of _auc: thresh_min, thresh_max, thresh_step
DefaultThreshMin == 0
DefaultThreshMax == 151
DefaultThreshStep == 10
DefaultGrid == <<DefaultThreshMin, DefaultThreshMax, DefaultThreshStep>>

\* the grids _auc is called with: the default, one with negative
\* thresholds, a coarse one, and an empty one
Grids == {DefaultGrid, <<-20, 41, 20>>, <<0, 200, 50>>, <<0, 0, 10>>}

\* the thresholds _raw_accuracy is called with
Thresholds == {-60, 0, 49, 50, 134, 135, 150, 185}

---------------------------------------------------------------------------
(* The state machine *)

NoImage == <<>>
NoValue == <<>>

\* the temperatures a model may be configured with (hundredths)
ModelTemperatures == {38, 50}

Init ==
    /\ prior \in PriorTables
    /\ T \in ModelTemperatures
    /\ pc = "idle"
    /\ P = NoImage /\ G = NoImage
    /\ tau = 0
    /\ grid = DefaultGrid
    /\ reweigh = FALSE
    /\ thresh_arr = <<>>
    /\ aucs = <<>>
    /\ ret = NoValue
    /\ log = <<>> /\ smoothing_alpha = Zero /\ lineno = 0
    /\ losses = <<>> /\ losses_smoothed = <<>>
    /\ T_entry = T /\ t_orig = T /\ ts = <<>> /\ n_images = 0
    /\ col = 0 /\ row = 0 /\ axes = <<>> /\ calls = <<>> /\ titles = <<>>
    /\ results = <<>> /\ rows = 0 /\ columns_best = 0 /\ columns_worst = 0
    /\ images_sorted = <<>> /\ images_show = <<>> /\ reads = <<>>
    /\ orientation = "" /\ fig_lines = <<>> /\ lines_entry = <<>>
    /\ dataloader = <<>> /\ auc_total = Zero /\ demo_i = 0
    /\ n_good = 0 /\ n_bad = 0 /\ T_norebal = T /\ T_rebal = T
    /\ outcomes = <<>> /\ correct = 0 /\ cls_i = 0

\* a call _raw_accuracy(P, G, tau, reweigh_classes=reweigh)
RawAccuracyCall ==
    /\ pc = "idle"
    /\ \E pg \in ImagePairs, t \in Thresholds, rw \in BOOLEAN :
        /\ P' = pg[1] /\ G' = pg[2] /\ tau' = t /\ reweigh' = rw
        /\ ret' = raw_accuracy(pg[1], pg[2], t, rw)
    /\ pc' = "raw_accuracy_done"
    /\ UNCHANGED <<gvb_vars, cls_vars, prior, T, grid, thresh_arr, aucs, curve_vars, anneal_vars, grid_vars,
                   amt_vars, divider_vars, demo_vars>>

\* a call _auc(P, G, grid[1], grid[2], grid[3], reweigh_classes=reweigh);
\* an empty threshold grid divides by len(thresh) = 0 and raises
AucCall ==
    /\ pc = "idle"
    /\ \E pg \in ImagePairs, g \in Grids, rw \in BOOLEAN :
        /\ P' = pg[1] /\ G' = pg[2] /\ grid' = g /\ reweigh' = rw
        /\ thresh_arr' = arange(g[1], g[2], g[3])
        /\ IF Len(thresh_arr') = 0
           THEN /\ aucs' = <<>>
                /\ ret' = NoValue
                /\ pc' = "auc_raised"
           ELSE /\ aucs' = auc_list(pg[1], pg[2], thresh_arr', rw)
                /\ ret' = auc_mean(aucs', Len(thresh_arr'))
                /\ pc' = "auc_done"
    /\ UNCHANGED <<gvb_vars, cls_vars, prior, T, tau, curve_vars, anneal_vars, grid_vars, amt_vars,
                   divider_vars, demo_vars>>

MetricNext == RawAccuracyCall \/ AucCall

\* the metric alone, for one configuration of the model
InitMetric == Init /\ T = 38

SpecMetric == InitMetric /\ [][MetricNext]_vars

---------------------------------------------------------------------------
(* Properties of the metric *)

\* the squared Euclidean distance of two chrominance values
SqDist(x, y) == (x[1] - y[1]) * (x[1] - y[1]) + (x[2] - y[2]) * (x[2] - y[2])

\* the pixels of the call whose distance is at most t
Qualifying(t) == {p \in 1..Len(P) : t >= 0 /\ SqDist(P[p], G[p]) <= t * t}

InUnit(x) == RLe(Zero, x) /\ RLe(x, One)

\* C1: an unweighted _raw_accuracy call returns the number of pixels whose
\* distance is at most the threshold (boundary included) over the number of
\* pixels: 0 when none qualifies, 1 when all do.
C1_UnweightedAccuracy ==
    (pc = "raw_accuracy_done" /\ ~reweigh) =>
        /\ ret[2] > 0
        /\ ret[1] * Len(P) = Cardinality(Qualifying(tau)) * ret[2]
        /\ (Qualifying(tau) = {} => ret = Zero)
        /\ (Qualifying(tau) = 1..Len(P) => ret = One)

\* an unweighted call where one pixel lies exactly on the threshold and
\* another lies beyond it
C1_Witness ==
    /\ pc = "raw_accuracy_done" /\ ~reweigh /\ tau > 0
    /\ \E p \in 1..Len(P) : SqDist(P[p], G[p]) = tau * tau
    /\ \E p \in 1..Len(P) : SqDist(P[p], G[p]) > tau * tau
    /\ ret = Rat(1, 2)

\* 1 / prior[bin(P at p)]
InvPrior(p) == RDiv(One, prior[bin_ab(P[p])])

SumOver(S, f(_)) == RSum([i \in 1..Len(P) |-> IF i \in S THEN f(i) ELSE Zero])

\* C2: a reweighted _raw_accuracy call returns the sum over the pixels within
\* the threshold of w(p) = (1 / prior[bin(P at p)]) / (sum over all pixels q
\* of 1 / prior[bin(P at q)]); the weights sum to 1, so the result is 1 when
\* every pixel is within the threshold, and it is 0 when none is.
C2_ReweightedAccuracy ==
    (pc = "raw_accuracy_done" /\ reweigh) =>
        /\ RMul(ret, SumOver(1..Len(P), InvPrior)) = SumOver(Qualifying(tau), InvPrior)
        /\ RSum(pixel_weights(P)) = One
        /\ (Qualifying(tau) = 1..Len(P) => ret = One)
        /\ (Qualifying(tau) = {} => ret = Zero)

\* a reweighted call where the pixels fall in bins of different priors and
\* only some are within the threshold
C2_Witness ==
    /\ pc = "raw_accuracy_done" /\ reweigh
    /\ Qualifying(tau) # {} /\ Qualifying(tau) # 1..Len(P)
    /\ \E p, q \in 1..Len(P) : prior[bin_ab(P[p])] # prior[bin_ab(P[q])]
    /\ ret # Rat(Cardinality(Qualifying(tau)), Len(P))

\* C3: with the default parameters _auc evaluates the metric at exactly the
\* 16 thresholds 0, 10, ..., 150 and returns the plain arithmetic mean of the
\* 16 accuracies, each the value of an independent _raw_accuracy call.
C3_AucDefaultGrid ==
    (pc = "auc_done" /\ grid = DefaultGrid) =>
        /\ thresh_arr = [i \in 1..16 |-> 10 * (i - 1)]
        /\ aucs = [i \in 1..16 |-> raw_accuracy(P, G, 10 * (i - 1), reweigh)]
        /\ RMul(ret, Rat(16, 1)) = RSum(aucs)

\* a default-grid call whose accuracy rises at the threshold 50 and stays
\* below 1 at the last threshold, 150
C3_Witness ==
    /\ pc = "auc_done" /\ grid = DefaultGrid
    /\ aucs[5] # aucs[6] /\ aucs[16] # One
    /\ thresh_arr[6] = 50 /\ thresh_arr[16] = 150
    /\ ret # aucs[1] /\ ret # aucs[16]

\* C10: the accuracy never decreases when the threshold grows, in either
\* mode, every accuracy lies in [0, 1], and so does the value of _auc.
C10_MonotoneAndBounded ==
    /\ pc = "raw_accuracy_done" =>
        /\ InUnit(ret)
        /\ \A t \in Thresholds :
              /\ t >= tau => RLe(ret, raw_accuracy(P, G, t, reweigh))
              /\ t <= tau => RLe(raw_accuracy(P, G, t, reweigh), ret)
    /\ pc = "auc_done" =>
        /\ InUnit(ret)
        /\ \A i \in 1..Len(aucs) : InUnit(aucs[i])
        /\ \A i, j \in 1..Len(aucs) : i <= j => RLe(aucs[i], aucs[j])

\* a reweighted call with an accuracy strictly between 0 and 1 that a larger
\* threshold strictly raises
C10_Witness ==
    /\ pc = "raw_accuracy_done" /\ reweigh
    /\ ret # Zero /\ ret # One
    /\ \E t \in Thresholds : t > tau /\ ~RLe(raw_accuracy(P, G, t, reweigh), ret)

---------------------------------------------------------------------------
(* learning_curve_from_log, lines 153-189 *)

\* a line of the log: the loss its first group parses to, or no match
NoMatch == <<>>
LossValues == {Rat(10, 1), Rat(20, 1)}
Lines == {NoMatch} \cup LossValues
Logs == UNION {[1..n -> Lines] : n \in 0..MaxLines}

\* the default smoothing_alpha, 0.05 = 1 / DefaultAlphaInverse
DefaultAlphaInverse == 20
Alphas == {Rat(1, DefaultAlphaInverse), Rat(1, 2), Rat(1, 1)}

\* smoothing_alpha * loss + (1 - smoothing_alpha) * losses_smoothed[-1]
smooth_step_swapped(alpha, loss, last) ==
    RAdd(RMul(RAdd(One, RMul(Rat(-1, 1), alpha)), loss), RMul(alpha, last))

smooth_step(alpha, loss, last) ==
    RAdd(RMul(alpha, loss), RMul(RAdd(One, RMul(Rat(-1, 1), alpha)), last))

\* losses[:1]
first_slice(s) == IF Len(s) = 0 THEN <<>> ELSE <<s[1]>>

LearningCurveCall ==
    /\ pc = "idle"
    /\ \E lg \in Logs, a \in Alphas : log' = lg /\ smoothing_alpha' = a
    /\ lineno' = 0
    /\ losses' = <<>>
    /\ losses_smoothed' = <<>>
    /\ pc' = "curve_parse"
    /\ UNCHANGED <<gvb_vars, cls_vars, prior, ret, T, metric_vars, anneal_vars, grid_vars, amt_vars,
                   divider_vars, demo_vars>>

\* for line in f: a match appends its loss, any other line is skipped
CurveParseLine ==
    /\ pc = "curve_parse"
    /\ lineno < Len(log)
    /\ lineno' = lineno + 1
    /\ losses' = IF log[lineno + 1] = NoMatch THEN losses
                 ELSE Append(losses, log[lineno + 1])
    /\ UNCHANGED <<gvb_vars, cls_vars, prior, pc, ret, T, log, smoothing_alpha, losses_smoothed, metric_vars,
                   anneal_vars, grid_vars, amt_vars, divider_vars, demo_vars>>

\* losses_smoothed = losses[:1]
CurveSmoothStart ==
    /\ pc = "curve_parse"
    /\ lineno = Len(log)
    /\ losses_smoothed' = first_slice(losses)
    /\ pc' = "curve_smooth"
    /\ UNCHANGED <<gvb_vars, cls_vars, prior, ret, T, log, smoothing_alpha, lineno, losses, metric_vars,
                   anneal_vars, grid_vars, amt_vars, divider_vars, demo_vars>>

\* for loss in losses[1:]: the next loss is losses[len(losses_smoothed)]
CurveSmoothStep ==
    /\ pc = "curve_smooth"
    /\ Len(losses_smoothed) < Len(losses)
    /\ losses_smoothed' =
          Append(losses_smoothed,
                 smooth_step(smoothing_alpha, losses[Len(losses_smoothed) + 1],
                             losses_smoothed[Len(losses_smoothed)]))
    /\ UNCHANGED <<gvb_vars, cls_vars, prior, pc, ret, T, log, smoothing_alpha, lineno, losses, metric_vars,
                   anneal_vars, grid_vars, amt_vars, divider_vars, demo_vars>>

\* both curves are plotted against iterations 1..len(losses)
CurvePlot ==
    /\ pc = "curve_smooth"
    /\ Len(losses_smoothed) >= Len(losses)
    /\ pc' = "curve_done"
    /\ UNCHANGED <<gvb_vars, cls_vars, prior, ret, T, curve_vars, metric_vars, anneal_vars, grid_vars,
                   amt_vars, divider_vars, demo_vars>>

CurveNext ==
    \/ LearningCurveCall
    \/ CurveParseLine
    \/ CurveSmoothStart
    \/ CurveSmoothStep
    \/ CurvePlot

\* the learning curve alone, for one configuration of the model
InitCurve == Init /\ T = 38 /\ prior = [b \in Bins |-> Rat(1, 8)]

SpecCurve == InitCurve /\ [][CurveNext]_vars

\* C4: the smoothed sequence is as long as the loss sequence (also when both
\* are empty), starts with the first loss, and continues with
\* smoothed[i] = a * losses[i] + (1 - a) * smoothed[i - 1]; the losses
\* 10, 20, 10, 20 with a = 0.5 give 10, 15, 12.5, 16.25.
C4_ExponentialSmoothing ==
    pc = "curve_done" =>
        /\ Len(losses_smoothed) = Len(losses)
        /\ Len(losses) >= 1 => losses_smoothed[1] = losses[1]
        /\ \A i \in 2..Len(losses) :
              LET a == smoothing_alpha
                  x == losses[i]
                  y == losses_smoothed[i - 1]
                  z == losses_smoothed[i]
              IN  \* z = a x + (1 - a) y, as z + a y = a x + y
                  RAdd(z, RMul(a, y)) = RAdd(RMul(a, x), y)
        /\ ( /\ losses = <<Rat(10, 1), Rat(20, 1), Rat(10, 1), Rat(20, 1)>>
             /\ smoothing_alpha = Rat(1, 2) )
           => losses_smoothed = <<Rat(10, 1), Rat(15, 1), Rat(25, 2), Rat(65, 4)>>

\* the losses 10, 20, 10, 20 smoothed with the default factor 0.05
C4_Witness ==
    /\ pc = "curve_done"
    /\ losses = <<Rat(10, 1), Rat(20, 1), Rat(10, 1), Rat(20, 1)>>
    /\ smoothing_alpha = Rat(1, DefaultAlphaInverse)
    /\ Len(losses_smoothed) = 4
    /\ losses_smoothed[2] = Rat(21, 2)

---------------------------------------------------------------------------
(* annealed_mean_demo, lines 192-231.  Temperatures are in hundredths. *)

\* ts = None stands for [1, .77, .58, .38, .29, .14, 0]
NoSweep == <<-1>>
DefaultSweep == <<100, 77, 58, 38, 29, 14, 0>>
SweepValues == {0, 38, 100}
Sweeps == {NoSweep} \cup UNION {[1..n -> SweepValues] : n \in 0..MaxSweep}

\* _subplots(r, c, use_gridspec, no_ticks), lines 26-61: for r == c == 1 the
\* tick loop runs over [axes], which in the gridspec branch is the 1 x 1
\* object array and has no tick_params, so the call raises AttributeError
subplots_raises(r, c, use_gridspec, no_ticks) ==
    no_ticks /\ use_gridspec /\ r = 1 /\ c = 1

\* assert len(ts) % 2 == 1
anneal_precondition_none(sweep) == TRUE

anneal_precondition(sweep) == Len(sweep) % 2 = 1

\* PredictColor(model)(img): an opaque function of the image and of the
\* temperature the model holds when it runs
Prediction(img, temperature) == [img |-> img, T |-> temperature]

\* model.network.decode_q.T = t_orig
restore_forgotten(orig, current) == current

restore(orig, current) == orig

\* {0: "Mean", len(ts) // 2: "Annealed Mean", len(ts) - 1: "Mode"}.get(i, ''):
\* of equal keys of a dict display the last one written wins
suptitle_first_wins(i, n) ==
    IF i = 0 THEN "Mean"
    ELSE IF i = n \div 2 THEN "Annealed Mean"
    ELSE IF i = n - 1 THEN "Mode"
    ELSE ""

suptitle(i, n) ==
    IF i = n - 1 THEN "Mode"
    ELSE IF i = n \div 2 THEN "Annealed Mean"
    ELSE IF i = 0 THEN "Mean"
    ELSE ""

\* title_fmt.format(suptitle, t): the caption, the format chosen and t
title(i, sweep) ==
    <<suptitle(i, Len(sweep)),
      IF sweep[i + 1] = 0 THEN "T->" ELSE "T=",
      sweep[i + 1]>>

AnnealedMeanCall ==
    /\ pc = "idle"
    /\ \E sweep \in Sweeps, n \in 1..MaxImages :
        /\ ts' = IF sweep = NoSweep THEN DefaultSweep ELSE sweep
        /\ n_images' = n
    /\ t_orig' = T
    /\ T_entry' = T
    /\ col' = 0 /\ row' = 0
    /\ axes' = <<>> /\ calls' = <<>> /\ titles' = <<>>
    /\ pc' = IF ~anneal_precondition(ts') THEN "anneal_raised"
             ELSE IF subplots_raises(n_images', Len(ts'), TRUE, TRUE)
             THEN "subplots_raised"
             ELSE "anneal_column"
    /\ UNCHANGED <<gvb_vars, cls_vars, prior, ret, T, metric_vars, curve_vars, amt_vars, divider_vars,
                   demo_vars>>

\* for c, t in enumerate(ts): model.network.decode_q.T = t
AnnealColumn ==
    /\ pc = "anneal_column"
    /\ col < Len(ts)
    /\ T' = ts[col + 1]
    /\ row' = 0
    /\ pc' = "anneal_row"
    /\ UNCHANGED <<gvb_vars, cls_vars, prior, ret, col, axes, calls, titles, metric_vars, curve_vars,
                   anneal_vars, amt_vars, divider_vars, demo_vars>>

\* for r, img in enumerate(dataloader): axes[r, c].imshow(PredictColor(model)(img))
AnnealPredict ==
    /\ pc = "anneal_row"
    /\ row < n_images
    /\ calls' = Append(calls, Prediction(row, T))
    /\ axes' = [cell \in DOMAIN axes \cup {<<row, col>>} |->
                   IF cell = <<row, col>> THEN Prediction(row, T) ELSE axes[cell]]
    /\ row' = row + 1
    /\ UNCHANGED <<gvb_vars, cls_vars, prior, pc, ret, T, col, titles, metric_vars, curve_vars, anneal_vars,
                   amt_vars, divider_vars, demo_vars>>

\* the dataloader is exhausted: the next column
AnnealColumnEnd ==
    /\ pc = "anneal_row"
    /\ row = n_images
    /\ col' = col + 1
    /\ pc' = "anneal_column"
    /\ UNCHANGED <<gvb_vars, cls_vars, prior, ret, T, row, axes, calls, titles, metric_vars, curve_vars,
                   anneal_vars, amt_vars, divider_vars, demo_vars>>

\* the sweep is exhausted: reset the temperature parameter
AnnealReset ==
    /\ pc = "anneal_column"
    /\ col = Len(ts)
    /\ T' = restore(t_orig, T)
    /\ pc' = "anneal_titles"
    /\ UNCHANGED <<gvb_vars, cls_vars, prior, ret, grid_vars, metric_vars, curve_vars, anneal_vars,
                   amt_vars, divider_vars, demo_vars>>

\* for i, (t, ax) in enumerate(zip(ts, axes[0, :])): ax.set_title(...)
AnnealTitles ==
    /\ pc = "anneal_titles"
    /\ titles' = [cell \in {<<0, i>> : i \in 0..(Len(ts) - 1)} |-> title(cell[2], ts)]
    /\ pc' = "anneal_done"
    /\ UNCHANGED <<gvb_vars, cls_vars, prior, ret, T, col, row, axes, calls, metric_vars, curve_vars,
                   anneal_vars, amt_vars, divider_vars, demo_vars>>

AnnealNext ==
    \/ AnnealedMeanCall
    \/ AnnealColumn
    \/ AnnealPredict
    \/ AnnealColumnEnd
    \/ AnnealReset
    \/ AnnealTitles


---------------------------------------------------------------------------
(* _subplot_divider, lines 70-87 *)

Orientations == {"horizontal", "vertical", "diagonal", ""}

\* the orientation is one of the two the routine draws
orientation_known(orient) == orient \in {"horizontal", "vertical"}

\* axes[n, 0] and axes[n + 1, 0], or axes[0, n] and axes[0, n + 1], exist
divider_in_grid(orient, n, nrows, ncols) ==
    IF orient = "horizontal" THEN n + 1 < nrows ELSE n + 1 < ncols

\* fig.add_artist(line): the line lies between the axes n and n + 1
add_artist(lines, orient, n) == Append(lines, <<orient, n>>)

\* a call of _subplot_divider on a 2 x 2 grid of a figure that holds no line
\* or one line already
SubplotDividerCall ==
    /\ pc = "idle"
    /\ \E orient \in Orientations, n \in 0..1,
          before \in {<<>>, <<<<"vertical", 0>>>>} :
        /\ orientation' = orient
        /\ lines_entry' = before
        /\ IF orientation_known(orient) /\ divider_in_grid(orient, n, 2, 2)
           THEN /\ fig_lines' = add_artist(before, orient, n)
                /\ pc' = "divider_done"
           ELSE /\ fig_lines' = before
                /\ pc' = "divider_raised"
    /\ UNCHANGED <<gvb_vars, cls_vars, prior, ret, T, metric_vars, curve_vars, anneal_vars, grid_vars,
                   amt_vars, demo_vars>>

---------------------------------------------------------------------------
(* amt_results_demo, lines 277-339.  results.txt names a different image   *)
(* on each line; the path of an image is the number of its line.           *)

ResultTables == UNION {[1..n -> 1..MaxEntries] : n \in 0..MaxEntries}

\* assert len(results) >= rows * (columns_worst + columns_best)
amt_precondition(n, nrows, nbest, nworst) == n >= nrows * (nworst + nbest)

\* sorted(results.items(), key=itemgetter(1)): by score, ties in file order
RECURSIVE sort_paths(_, _)
sort_paths(tbl, todo) ==
    IF todo = {} THEN <<>>
    ELSE LET m == CHOOSE x \in todo :
                     \A y \in todo : tbl[x] < tbl[y] \/ (tbl[x] = tbl[y] /\ x <= y)
         IN  <<m>> \o sort_paths(tbl, todo \ {m})

sorted_paths(tbl) == sort_paths(tbl, DOMAIN tbl)

Min(a, b) == IF a < b THEN a ELSE b

\* s[:k] and s[-k:] for k >= 1
head_slice(s, k) == SubSeq(s, 1, Min(k, Len(s)))
tail_slice(s, k) == SubSeq(s, Len(s) - Min(k, Len(s)) + 1, Len(s))

reversed(s) == [i \in 1..Len(s) |-> s[Len(s) + 1 - i]]

\* list(reversed(images_sorted[:rows * columns_worst]
\*               + images_sorted[-(rows * columns_best):]))
show_list_unreversed(sorted, nrows, nbest, nworst) ==
    head_slice(sorted, nrows * nworst) \o tail_slice(sorted, nrows * nbest)

show_list(sorted, nrows, nbest, nworst) ==
    reversed(head_slice(sorted, nrows * nworst) \o tail_slice(sorted, nrows * nbest))

AmtResultsCall ==
    /\ pc = "idle"
    /\ \E tbl \in ResultTables, nrows \in 1..MaxRows,
          nbest \in 1..MaxColumns, nworst \in 1..MaxColumns :
        /\ results' = tbl
        /\ rows' = nrows /\ columns_best' = nbest /\ columns_worst' = nworst
        /\ IF amt_precondition(Len(tbl), nrows, nbest, nworst)
           THEN /\ images_sorted' = sorted_paths(tbl)
                /\ images_show' = show_list(images_sorted', nrows, nbest, nworst)
                /\ pc' = "amt_show"
           ELSE /\ images_sorted' = <<>>
                /\ images_show' = <<>>
                /\ pc' = "amt_raised"
    /\ col' = 0 /\ row' = 0
    /\ axes' = <<>> /\ calls' = <<>> /\ titles' = <<>>
    /\ reads' = <<>>
    /\ fig_lines' = <<>>
    /\ UNCHANGED <<gvb_vars, cls_vars, prior, ret, T, orientation, lines_entry, metric_vars, curve_vars,
                   anneal_vars, demo_vars>>

\* one pass of the loop body for the cell n = c * rows + r
AmtShow ==
    /\ pc = "amt_show"
    /\ LET n == col * rows + row
           path == images_show[n + 1]
       IN  /\ reads' = Append(reads, path)
           /\ calls' = Append(calls, Prediction(path, T))
           /\ axes' = [cell \in DOMAIN axes \cup {<<row, 2 * col>>, <<row, 2 * col + 1>>} |->
                          IF cell = <<row, 2 * col>>
                          THEN [img |-> path, ylabel |-> results[path]]
                          ELSE IF cell = <<row, 2 * col + 1>>
                          THEN Prediction(path, T)
                          ELSE axes[cell]]
    /\ IF row + 1 < rows
       THEN row' = row + 1 /\ col' = col /\ pc' = pc
       ELSE /\ row' = 0
            /\ col' = col + 1
            /\ pc' = IF col + 1 < columns_best + columns_worst
                     THEN "amt_show" ELSE "amt_divider"
    /\ UNCHANGED <<gvb_vars, cls_vars, prior, ret, T, titles, results, rows, columns_best, columns_worst,
                   images_sorted, images_show, divider_vars, metric_vars, curve_vars,
                   anneal_vars, demo_vars>>

\* _subplot_divider(fig, axes, 'vertical', 2 * columns_best - 1), then the titles
AmtDivider ==
    /\ pc = "amt_divider"
    /\ orientation' = "vertical"
    /\ lines_entry' = fig_lines
    /\ IF /\ orientation_known("vertical")
          /\ divider_in_grid("vertical", 2 * columns_best - 1, rows,
                             2 * (columns_best + columns_worst))
       THEN /\ fig_lines' = add_artist(fig_lines, "vertical", 2 * columns_best - 1)
            /\ titles' = [cell \in {<<0, i>> : i \in 0..(2 * (columns_best + columns_worst) - 1)} |->
                             <<IF cell[2] % 2 = 0 THEN "Ground Truth" ELSE "Ours">>]
            /\ pc' = "amt_done"
       ELSE /\ fig_lines' = fig_lines
            /\ titles' = titles
            /\ pc' = "divider_raised"
    /\ UNCHANGED <<gvb_vars, cls_vars, prior, ret, T, col, row, axes, calls, amt_vars, metric_vars,
                   curve_vars, anneal_vars, demo_vars>>

AmtNext == AmtResultsCall \/ AmtShow \/ AmtDivider

---------------------------------------------------------------------------
(* raw_accuracy_demo, lines 382-402.  An image of the directory is given   *)
(* by the chrominance of its conversion, rgb_to_lab(img_rgb)[:, :, 1:],    *)
(* and the chrominance the predictor returns for it,                       *)
(* predict_color(img_rgb)[:, :, 1:].                                       *)

DemoImages ==
    {[lab |-> <<<<0, 0>>, x>>, pred |-> <<<<0, 0>>, y>>] :
        x \in {<<0, 0>>, <<30, 40>>}, y \in {<<0, 0>>, <<-90, -100>>}}

Dataloaders == UNION {[1..n -> DemoImages] : n \in 0..MaxImages}

\* _auc(img_lab[:, :, 1:], img_pred[:, :, 1:], reweigh_classes=reweigh_classes)
demo_auc_pred_first(img, reweigh_classes) ==
    auc(img.pred, img.lab, DefaultThreshMin, DefaultThreshMax, DefaultThreshStep,
        reweigh_classes)

demo_auc(img, reweigh_classes) ==
    auc(img.lab, img.pred, DefaultThreshMin, DefaultThreshMax, DefaultThreshStep,
        reweigh_classes)

RawAccuracyDemoCall ==
    /\ pc = "idle"
    /\ \E dl \in Dataloaders, rw \in BOOLEAN : dataloader' = dl /\ reweigh' = rw
    /\ auc_total' = Zero
    /\ demo_i' = 0
    /\ pc' = "demo_loop"
    /\ UNCHANGED <<gvb_vars, cls_vars, prior, ret, T, P, G, tau, grid, thresh_arr, aucs, curve_vars,
                   anneal_vars, grid_vars, amt_vars, divider_vars>>

\* for i, img in enumerate(dataloader): auc_total += _auc(...)
RawAccuracyDemoStep ==
    /\ pc = "demo_loop"
    /\ demo_i < Len(dataloader)
    /\ auc_total' = RAdd(auc_total, demo_auc(dataloader[demo_i + 1], reweigh))
    /\ demo_i' = demo_i + 1
    /\ UNCHANGED <<gvb_vars, cls_vars, prior, pc, ret, T, dataloader, metric_vars, curve_vars, anneal_vars,
                   grid_vars, amt_vars, divider_vars>>

\* return auc_total / len(dataloader), which raises for an empty directory
RawAccuracyDemoReturn ==
    /\ pc = "demo_loop"
    /\ demo_i = Len(dataloader)
    /\ IF Len(dataloader) = 0
       THEN ret' = NoValue /\ pc' = "demo_raised"
       ELSE ret' = RDiv(auc_total, Rat(Len(dataloader), 1)) /\ pc' = "demo_done"
    /\ UNCHANGED <<gvb_vars, cls_vars, prior, T, demo_vars, metric_vars, curve_vars, anneal_vars,
                   grid_vars, amt_vars, divider_vars>>

DemoNext == RawAccuracyDemoCall \/ RawAccuracyDemoStep \/ RawAccuracyDemoReturn

---------------------------------------------------------------------------
(* good_vs_bad_demo, lines 234-274.  The image in row r of the grid is the *)
(* r-th of chain(dataloader_good, dataloader_bad).                         *)

\* assert len(dataloader_good) % 2 == 1; assert len(dataloader_bad) % 2 == 1
gvb_precondition(ngood, nbad) == ngood % 2 = 1 /\ nbad % 2 = 1

\* what imshow is given beside a prediction: the lightness channel of the
\* converted input, or the input itself
Shown(img, what) == [img |-> img, shown |-> what]

GoodVsBadCall ==
    /\ pc = "idle"
    /\ \E ngood \in 0..MaxImages, nbad \in 0..MaxImages,
          tn \in ModelTemperatures, tr \in ModelTemperatures :
        /\ n_good' = ngood /\ n_bad' = nbad
        /\ T_norebal' = tn /\ T_rebal' = tr
        /\ pc' = IF ~gvb_precondition(ngood, nbad) THEN "gvb_raised"
                 ELSE IF subplots_raises(ngood + nbad, 4, FALSE, TRUE)
                 THEN "subplots_raised"
                 ELSE "gvb_row"
    /\ col' = 0 /\ row' = 0
    /\ axes' = <<>> /\ calls' = <<>> /\ titles' = <<>>
    /\ fig_lines' = <<>>
    /\ UNCHANGED <<cls_vars, prior, ret, T, orientation, lines_entry, metric_vars,
                   curve_vars, anneal_vars, amt_vars, demo_vars>>

\* one pass of the loop body: input, the two predictions, ground truth
GoodVsBadRow ==
    /\ pc = "gvb_row"
    /\ row < n_good + n_bad
    /\ calls' = calls \o <<Prediction(row, T_norebal), Prediction(row, T_rebal)>>
    /\ axes' = [cell \in DOMAIN axes \cup ({row} \X (0..3)) |->
                   IF cell = <<row, 0>> THEN Shown(row, "lightness")
                   ELSE IF cell = <<row, 1>> THEN Prediction(row, T_norebal)
                   ELSE IF cell = <<row, 2>> THEN Prediction(row, T_rebal)
                   ELSE IF cell = <<row, 3>> THEN Shown(row, "rgb")
                   ELSE axes[cell]]
    /\ row' = row + 1
    /\ UNCHANGED <<gvb_vars, cls_vars, prior, pc, ret, T, col, titles, metric_vars,
                   curve_vars, anneal_vars, amt_vars, divider_vars, demo_vars>>

\* _subplot_divider(fig, axes, 'horizontal', len(dataloader_good) - 1), then
\* the four titles of the top row
GoodVsBadDivider ==
    /\ pc = "gvb_row"
    /\ row = n_good + n_bad
    /\ orientation' = "horizontal"
    /\ lines_entry' = fig_lines
    /\ IF /\ orientation_known("horizontal")
          /\ divider_in_grid("horizontal", n_good - 1, n_good + n_bad, 4)
       THEN /\ fig_lines' = add_artist(fig_lines, "horizontal", n_good - 1)
            /\ titles' = [cell \in {0} \X (0..3) |->
                             <<IF cell[2] = 0 THEN "Input"
                               ELSE IF cell[2] = 1 THEN "Classification"
                               ELSE IF cell[2] = 2 THEN "Classification\n(w/ Rebalancing)"
                               ELSE "Ground Truth">>]
            /\ pc' = "gvb_done"
       ELSE /\ fig_lines' = fig_lines
            /\ titles' = titles
            /\ pc' = "divider_raised"
    /\ UNCHANGED <<gvb_vars, cls_vars, prior, ret, T, col, row, axes, calls, amt_vars,
                   metric_vars, curve_vars, anneal_vars, demo_vars>>

GoodVsBadNext == GoodVsBadCall \/ GoodVsBadRow \/ GoodVsBadDivider

---------------------------------------------------------------------------
(* classification_performance_demo, lines 342-379.  The classifier is      *)
(* opaque: an image of the directory is given by whether                   *)
(* model(img).argmax().item() would equal its label.                       *)

OutcomeLists == UNION {[1..n -> BOOLEAN] : n \in 0..MaxImages}

\* What iterating one batch of _dataloader(image_dir, labeled) yields.  With
\* labeled=False a batch is one 4-D tensor whose first axis holds the single
\* image of the batch (img[0, :, :, :] at line 97, used at lines 212-213,
\* 249-263 and 389-393), so iterating it yields one element; a labelled batch
\* is the pair of image and label.
batch_len(labeled) == IF labeled THEN 2 ELSE 1

\* for i, (img, label) in enumerate(dataloader): the unpacking of line 370
\* raises ValueError unless the batch yields exactly two elements.
unpack_raises(labeled) == batch_len(labeled) # 2

ClassificationCall ==
    /\ pc = "idle"
    /\ \E oc \in OutcomeLists : outcomes' = oc
    /\ correct' = 0
    /\ cls_i' = 0
    /\ pc' = "cls_loop"
    /\ UNCHANGED <<gvb_vars, prior, ret, T, metric_vars, curve_vars, anneal_vars,
                   grid_vars, amt_vars, divider_vars, demo_vars>>

\* One iteration of the loop of lines 370-377.  The loader was built at line
\* 360 with the default labeled=False of line 90, so the unpacking of the
\* batch raises before the classifier is called; otherwise
\* if model(img).argmax().item() == label: correct += 1
ClassificationStep ==
    /\ pc = "cls_loop"
    /\ cls_i < Len(outcomes)
    /\ IF unpack_raises(FALSE)
       THEN /\ pc' = "cls_unpack_raised"
            /\ UNCHANGED <<correct, cls_i>>
       ELSE /\ correct' = IF outcomes[cls_i + 1] THEN correct + 1 ELSE correct
            /\ cls_i' = cls_i + 1
            /\ pc' = pc
    /\ UNCHANGED <<gvb_vars, prior, ret, T, outcomes, metric_vars, curve_vars,
                   anneal_vars, grid_vars, amt_vars, divider_vars, demo_vars>>

\* return correct / len(dataloader), reached when the loop ends without
\* raising; it raises ZeroDivisionError for an empty directory
ClassificationReturn ==
    /\ pc = "cls_loop"
    /\ cls_i = Len(outcomes)
    /\ IF Len(outcomes) = 0
       THEN ret' = NoValue /\ pc' = "cls_raised"
       ELSE ret' = Rat(correct, Len(outcomes)) /\ pc' = "cls_done"
    /\ UNCHANGED <<gvb_vars, cls_vars, prior, T, metric_vars, curve_vars, anneal_vars,
                   grid_vars, amt_vars, divider_vars, demo_vars>>

ClassificationNext == ClassificationCall \/ ClassificationStep \/ ClassificationReturn

---------------------------------------------------------------------------
(* The specifications.  Init leaves the prior table and the temperature    *)
(* the model was built with open; a specification of one component fixes   *)
(* the one its component never reads.                                      *)

UniformPrior == [b \in Bins |-> Rat(1, 8)]

InitAnneal == Init /\ prior = UniformPrior
SpecAnneal == InitAnneal /\ [][AnnealNext]_vars

InitAmt == Init /\ prior = UniformPrior /\ T = 38
SpecAmt == InitAmt /\ [][AmtNext]_vars

InitDemo == Init /\ T = 38
SpecDemo == InitDemo /\ [][DemoNext]_vars

\* every function of the module that takes part in a result
Next ==
    \/ MetricNext
    \/ CurveNext
    \/ AnnealNext
    \/ GoodVsBadNext
    \/ AmtNext
    \/ SubplotDividerCall
    \/ ClassificationNext
    \/ DemoNext

InitProgram == Init /\ prior = UniformPrior
Spec == InitProgram /\ [][Next]_vars

---------------------------------------------------------------------------
(* Properties of amt_results_demo *)

DistinctScores == \A i, j \in DOMAIN results : i # j => results[i] # results[j]

\* the number of entries that score below, and above, the entry p
Below(p) == Cardinality({q \in DOMAIN results : results[q] < results[p]})
Above(p) == Cardinality({q \in DOMAIN results : results[q] > results[p]})

\* the entry shown at placement index n = c * rows + r
ShownAt(n) == axes[<<n % rows, 2 * (n \div rows)>>].img

AmtShown ==
    /\ pc = "amt_done"
    /\ DistinctScores
    /\ rows >= 1 /\ columns_best >= 1 /\ columns_worst >= 1

\* what C5 states of the cells apart from the place of the lowest entry:
\* the first rows * columns_best placement indices hold the highest-scoring
\* entries and the others the lowest-scoring ones, each once, in the reverse
\* of the order they were selected in (ascending), that is by falling score
AmtSelection ==
    LET nbest == rows * columns_best
        nshown == rows * (columns_best + columns_worst)
    IN  /\ DOMAIN axes = (0..(rows - 1)) \X (0..(2 * (columns_best + columns_worst) - 1))
        /\ Len(reads) = nshown
        /\ \A n \in 0..(nshown - 1) : ShownAt(n) = reads[n + 1]
        /\ \A n \in 0..(nbest - 1) : Above(ShownAt(n)) < nbest
        /\ \A n \in nbest..(nshown - 1) : Below(ShownAt(n)) < rows * columns_worst
        /\ \A m, n \in 0..(nshown - 1) : m # n => ShownAt(m) # ShownAt(n)
        /\ \A m, n \in 0..(nshown - 1) :
              m < n => results[ShownAt(m)] > results[ShownAt(n)]

\* C5 as stated: with distinct scores the cells hold exactly the
\* rows * columns_worst lowest and the rows * columns_best highest entries,
\* each once, in reverse selection order, and the lowest-scoring entry has
\* the smallest placement index of the worst block.
C5_LowestShownFirst ==
    AmtShown =>
        /\ AmtSelection
        /\ Below(ShownAt(rows * columns_best)) = 0

\* C5 amended: the same selection and order, and the lowest-scoring entry
\* has the largest placement index of the worst block, the last cell filled.
C5_LowestShownLast ==
    AmtShown =>
        /\ AmtSelection
        /\ Below(ShownAt(rows * (columns_best + columns_worst) - 1)) = 0

\* a gallery whose worst block holds two cells and that leaves an entry out
C5_Witness ==
    /\ AmtShown
    /\ rows * columns_worst >= 2
    /\ Len(results) > rows * (columns_best + columns_worst)
    /\ Below(ShownAt(rows * columns_best)) = 1

---------------------------------------------------------------------------
(* Properties of the preconditions *)

AnnealRunning ==
    pc \in {"anneal_column", "anneal_row", "anneal_titles", "anneal_done"}

AmtRunning == pc \in {"amt_show", "amt_divider", "amt_done"}

\* C6: a sweep of even length is rejected before the temperature changes
\* and before any prediction; a results table with fewer than
\* rows * (columns_worst + columns_best) entries is rejected before any image
\* is read or predicted; an orientation other than 'horizontal' and
\* 'vertical' is rejected without a line added to the figure.
C6_FailFast ==
    /\ AnnealRunning => Len(ts) % 2 = 1
    /\ pc = "anneal_raised" =>
          /\ Len(ts) % 2 = 0
          /\ T = T_entry
          /\ calls = <<>> /\ axes = <<>>
    /\ pc \in {"gvb_row", "gvb_done"} => (n_good % 2 = 1 /\ n_bad % 2 = 1)
    /\ pc = "gvb_raised" =>
          /\ n_good % 2 = 0 \/ n_bad % 2 = 0
          /\ calls = <<>> /\ axes = <<>> /\ fig_lines = <<>>
    /\ AmtRunning => Len(results) >= rows * (columns_worst + columns_best)
    /\ pc = "amt_raised" =>
          /\ Len(results) < rows * (columns_worst + columns_best)
          /\ reads = <<>> /\ calls = <<>> /\ axes = <<>>
    /\ pc \in {"divider_done", "amt_done", "gvb_done"} =>
          orientation \in {"horizontal", "vertical"}
    /\ pc = "divider_raised" => fig_lines = lines_entry

\* a sweep of two temperatures was rejected
C6_Witness ==
    /\ pc = "anneal_raised"
    /\ Len(ts) = 2
    /\ ts[1] # T

---------------------------------------------------------------------------
(* Properties of annealed_mean_demo *)

TopRowOnly == \A cell \in DOMAIN titles : cell[1] = 0

LabelsAt(n) ==
    \A i \in 0..(n - 1) :
        titles[<<0, i>>][1] =
            IF i = 0 THEN "Mean"
            ELSE IF i = n \div 2 THEN "Annealed Mean"
            ELSE IF i = n - 1 THEN "Mode"
            ELSE ""

\* C7 as stated: for every sweep of odd length, length 1 included, column 0
\* is labelled "Mean", the middle column "Annealed Mean", the last column
\* "Mode" and every other column "", and only the top row has titles.
C7_LabelsEveryOddLength ==
    pc = "anneal_done" =>
        /\ TopRowOnly
        /\ titles[<<0, 0>>][1] = "Mean"
        /\ titles[<<0, Len(ts) \div 2>>][1] = "Annealed Mean"
        /\ titles[<<0, Len(ts) - 1>>][1] = "Mode"
        /\ \A i \in 0..(Len(ts) - 1) :
              i \notin {0, Len(ts) \div 2, Len(ts) - 1} => titles[<<0, i>>][1] = ""

\* C7 amended: the labels are as stated for every odd length from 3 on; a
\* sweep of length 1 has one column, which is labelled "Mode" when there
\* are two images or more; with one image the 1 x 1 grid cannot be built,
\* the driver raises and no title is set.
C7_LabelsFromThree ==
    /\ pc = "anneal_done" =>
        /\ TopRowOnly
        /\ DOMAIN titles = {0} \X (0..(Len(ts) - 1))
        /\ Len(ts) >= 3 => LabelsAt(Len(ts))
        /\ Len(ts) = 1 => (n_images >= 2 /\ titles[<<0, 0>>][1] = "Mode")
    /\ pc = "subplots_raised" => (Len(ts) = 1 /\ n_images = 1 /\ titles = <<>>)
    /\ (AnnealRunning /\ Len(ts) = 1) => n_images >= 2

\* the default sweep over two images, with its three labels
C7_Witness ==
    /\ pc = "anneal_done"
    /\ ts = DefaultSweep
    /\ n_images = 2
    /\ titles[<<0, 0>>] = <<"Mean", "T=", 100>>
    /\ titles[<<0, 3>>] = <<"Annealed Mean", "T=", 38>>
    /\ titles[<<0, 6>>] = <<"Mode", "T->", 0>>
    /\ titles[<<0, 1>>][1] = ""

\* C9: every prediction in cell (r, c) was computed at temperature ts[c],
\* the columns are filled in sweep order with one full pass over the images
\* each, and on return the temperature is the one found on entry.
C9_TemperaturePerColumn ==
    (AnnealRunning \/ pc \in {"anneal_raised", "subplots_raised"}) =>
        /\ \A cell \in DOMAIN axes :
              axes[cell] = Prediction(cell[1], ts[cell[2] + 1])
        /\ \A k \in 1..Len(calls) :
              calls[k] = Prediction((k - 1) % n_images, ts[(k - 1) \div n_images + 1])
        /\ pc \in {"anneal_raised", "subplots_raised"} => (T = T_entry /\ calls = <<>>)
        /\ pc \in {"anneal_titles", "anneal_done"} =>
              /\ Len(calls) = Len(ts) * n_images
              /\ DOMAIN axes = (0..(n_images - 1)) \X (0..(Len(ts) - 1))
              /\ T = T_entry

\* a sweep of three temperatures, none the model's own, over two images
C9_Witness ==
    /\ pc = "anneal_done"
    /\ Len(ts) = 3 /\ n_images = 2
    /\ \A i \in 1..3 : ts[i] # T_entry
    /\ ts[1] # ts[3]
    /\ Len(calls) = 6

---------------------------------------------------------------------------
(* Properties of raw_accuracy_demo *)

InvPriorOf(ab) == RDiv(One, prior[bin_ab(ab)])

\* the accuracy at threshold t where the image `binned` supplies the bins
ExpectedAccuracy(binned, other, t, weighted) ==
    LET n == Len(binned)
        Q == {p \in 1..n : t >= 0 /\ SqDist(binned[p], other[p]) <= t * t}
    IN  IF Q = {} THEN Zero
        ELSE IF weighted
        THEN RDiv(RSum([p \in 1..n |-> IF p \in Q THEN InvPriorOf(binned[p]) ELSE Zero]),
                  RSum([p \in 1..n |-> InvPriorOf(binned[p])]))
        ELSE Rat(Cardinality(Q), n)

\* the mean of the accuracies at 0, 10, ..., 150
ExpectedAuc(binned, other, weighted) ==
    RDiv(RSum([k \in 1..16 |-> ExpectedAccuracy(binned, other, 10 * (k - 1), weighted)]),
         Rat(16, 1))

\* C8 as stated: the result is the mean over the images of the AUC of the
\* prediction as P against the converted input as G, so that the weights of
\* the reweighted mode come from the bins of the prediction.
C8_WeightsFromPrediction ==
    pc = "demo_done" =>
        RMul(ret, Rat(Len(dataloader), 1))
          = RSum([i \in 1..Len(dataloader) |->
                     ExpectedAuc(dataloader[i].pred, dataloader[i].lab, reweigh)])

\* C8 amended: the result is the mean over the images of the AUC with the
\* converted input's chrominance as the metric's first argument and the
\* prediction as its second, so that the weights of the reweighted mode come
\* from the bins of the ground truth.
C8_WeightsFromGroundTruth ==
    pc = "demo_done" =>
        RMul(ret, Rat(Len(dataloader), 1))
          = RSum([i \in 1..Len(dataloader) |->
                     ExpectedAuc(dataloader[i].lab, dataloader[i].pred, reweigh)])

\* a reweighted run over two images, one with a prediction that falls in
\* other bins than its ground truth
C8_Witness ==
    /\ pc = "demo_done"
    /\ reweigh
    /\ Len(dataloader) = 2
    /\ dataloader[1] # dataloader[2]
    /\ \E i \in 1..2 :
          ExpectedAuc(dataloader[i].lab, dataloader[i].pred, TRUE)
            # ExpectedAuc(dataloader[i].pred, dataloader[i].lab, TRUE)

====
